---- MODULE Spec2Model ----
(***************************************************************************)
(* A model of astroalign-js (src/unnamed/part_003): triangle (asterism)    *)
(* invariants, cross-matching, RANSAC and the correspondence resolver of   *)
(* findTransform.                                                          *)
(*                                                                         *)
(* Numbers.  Points have integer coordinates.  Every quantity the code     *)
(* computes from them is then a rational or the square root of a rational, *)
(* and is modelled exactly:                                                *)
(*   - a side length by its square (Math.sqrt is strictly increasing, so   *)
(*     sorting by the square is sorting by the length);                    *)
(*   - a descriptor component Math.sqrt(n / d) by the reduced pair         *)
(*     <<n, d>>, with <<1, 0>> for Infinity (n / 0, n > 0) and <<0, 0>>    *)
(*     for NaN (0 / 0);                                                    *)
(*   - a transform by integer numerators over one common denominator.      *)
(* Indices into point lists are 0-based, as in the source.                 *)
(***************************************************************************)
EXTENDS Integers, Sequences, FiniteSets, TLC

VARIABLES
    source,            \* findTransform's source argument (a point list)
    target,            \* findTransform's target argument (a point list)
    maxControlPoints,  \* findTransform's maxControlPoints argument
    truth,             \* how the target was made from the source (test harness)
    pc,                \* the position of the findTransform call
    err,               \* the error thrown, if any
    sourceControlP, targetControlP,
    sourceInvariants, sourceAsterisms,
    targetInvariants, targetAsterisms,
    matches, minMatches,
    allIdxs, iterI,    \* ransac: the shuffled candidate indices, the loop counter
    maybeIdxs,         \* ransac: the candidate sampled in the last iteration
    alsoIdxs,          \* ransac: the candidates accepted in the last iteration
    goodFit, betterFit, betterInlierIdxs,
    round,             \* ransac: refinement rounds done
    bestT, inlierInd,
    inlArrUnique,      \* findTransform: the resolved (source, target) indices
    ret,               \* findTransform's return value
    api                \* a direct call of an exported geometry function

inputVars == <<source, target, maxControlPoints, truth>>
controlVars == <<sourceControlP, targetControlP>>
invariantVars == <<sourceInvariants, sourceAsterisms,
                   targetInvariants, targetAsterisms>>
matchVars == <<matches, minMatches>>
loopVars == <<allIdxs, iterI, maybeIdxs, alsoIdxs, goodFit>>
refineVars == <<betterFit, betterInlierIdxs, round>>
resultVars == <<bestT, inlierInd, inlArrUnique, ret>>

vars == <<inputVars, pc, err, controlVars, invariantVars, matchVars, loopVars,
          refineVars, resultVars, api>>

-----------------------------------------------------------------------------
(* Bounds of the model *)

\* coordinates of the generated points range over 0..MaxCoord
MaxCoord == 2
\* longest point list the geometry functions are called on directly
MaxPts == 3

\* longest prefix of a base configuration handed to findTransform
MaxSrc == 6
\* Math.random() returns one of the values 0/RandomLevels .. (RandomLevels-1)/RandomLevels
RandomLevels == 3

(* Program constants *)
NUM_NEAREST_NEIGHBORS == 5
\* MIN_MATCHES_FRACTION = 0.8, in tenths
MIN_MATCHES_FRACTION == 8
PIXEL_TOL == 2
\* matchRadius = 0.1, in thousandths
matchRadius == 100
\* the default of maxControlPoints
DefaultMaxControlPoints == 50
\* the fewest control points findTransform accepts
MinControlPoints == 3
\* the number of refinement rounds of ransac
RefineRounds == 3
\* the cap of minMatches
MaxMinMatches == 10

\* a variable holds Null until the program assigns it, Some(v) once it holds
\* v, and null is Null again
Null == <<>>
Some(v) == <<v>>
Val(o) == o[1]
\* no error was thrown
NoError == "none"

-----------------------------------------------------------------------------
(* Arithmetic helpers *)

Min(a, b) == IF a <= b THEN a ELSE b
Max(a, b) == IF a >= b THEN a ELSE b
Abs(a) == IF a < 0 THEN -a ELSE a

\* the sequence q itself, as a tuple evaluated once
Eager(q) == q \o <<>>

RECURSIVE GCD(_, _)
GCD(a, b) == IF b = 0 THEN a ELSE GCD(b, a % b)

\* the elements of a finite set of integers, ascending
RECURSIVE SortedSeq(_)
SortedSeq(S) ==
    IF S = {} THEN <<>>
    ELSE LET m == CHOOSE x \in S : \A y \in S : x <= y
         IN  <<m>> \o SortedSeq(S \ {m})

\* sources[i] of the code
Point(sources, i) == sources[i + 1]

\* squared Euclidean distance of two points
SqDist(p, q) == (p[1] - q[1]) * (p[1] - q[1]) + (p[2] - q[2]) * (p[2] - q[2])

-----------------------------------------------------------------------------
(* Floating-point values Math.sqrt(n / d) of non-negative integers n, d *)

NaN == <<0, 0>>
Infinity == <<1, 0>>

\* Math.sqrt(n / d)
SqrtRatio(n, d) ==
    IF d = 0 THEN (IF n = 0 THEN NaN ELSE Infinity)
    ELSE LET g == GCD(n, d) IN <<n \div g, d \div g>>

\* a === b on two such values: NaN equals nothing, itself included
StrictEq(a, b) == a # NaN /\ b # NaN /\ a = b

\* a >= 1 on such a value (false for NaN)
AtLeastOne(a) == a # NaN /\ a[1] >= a[2]

\* a is a finite number (neither NaN nor Infinity)
IsFinite(a) == a[2] > 0

-----------------------------------------------------------------------------
(* invariantFeatures *)

invariantFeatures(x1, x2, x3) ==
    LET s12 == SqDist(x1, x2)
        s23 == SqDist(x2, x3)
        s13 == SqDist(x1, x3)
        lo == Min(s12, Min(s23, s13))
        hi == Max(s12, Max(s23, s13))
        mid == s12 + s23 + s13 - lo - hi
    IN  <<SqrtRatio(hi, mid), SqrtRatio(mid, lo)>>

-----------------------------------------------------------------------------
(* arrangeTriplet *)

\* the sides left in the order they were computed in
SortedSideIndicesUnsorted(len) == <<1, 2, 3>>

\* the sides sorted from the longest to the shortest
SortedSideIndicesDescending(len) ==
    LET before(i, j) == len[i] > len[j] \/ (len[i] = len[j] /\ i < j)
        rank(i) == Cardinality({j \in 1..3 : before(j, i)})
    IN  Eager([r \in 1..3 |-> CHOOSE i \in 1..3 : rank(i) = r - 1])

\* [0, 1, 2] sorted by side length with Array.prototype.sort, which is stable:
\* of two sides of equal length the one with the lower position comes first
SortedSideIndices(len) ==
    LET before(i, j) == len[i] < len[j] \/ (len[i] = len[j] /\ i < j)
        rank(i) == Cardinality({j \in 1..3 : before(j, i)})
    IN  Eager([r \in 1..3 |-> CHOOSE i \in 1..3 : rank(i) = r - 1])

\* mostCommon(arr): Object.entries(count) lists the integer keys ascending;
\* the stable sort puts the higher counts first
mostCommon(arr) ==
    LET keys == SortedSeq({arr[i] : i \in 1..Len(arr)})
        count(k) == Cardinality({i \in 1..Len(arr) : arr[i] = k})
        entries == Eager([i \in 1..Len(keys) |-> <<keys[i], count(keys[i])>>])
        before(i, j) == entries[i][2] > entries[j][2]
                        \/ (entries[i][2] = entries[j][2] /\ i < j)
        rank(i) == Cardinality({j \in 1..Len(entries) : before(j, i)})
    IN  Eager([r \in 1..Len(entries) |->
            entries[CHOOSE i \in 1..Len(entries) : rank(i) = r - 1]])

\* parseInt(a) of the array of entries a: String(a) starts with the first key
parseIntEntries(a) == a[1][1]

arrangeTriplet(sources, vertexIndices) ==
    LET ind1 == vertexIndices[1]
        ind2 == vertexIndices[2]
        ind3 == vertexIndices[3]
        x1 == Point(sources, ind1)
        x2 == Point(sources, ind2)
        x3 == Point(sources, ind3)
        sideInd == << <<ind1, ind2>>, <<ind2, ind3>>, <<ind3, ind1>> >>
        sideLengths == <<SqDist(x1, x2), SqDist(x2, x3), SqDist(x3, x1)>>
        sortedIndices == SortedSideIndices(sideLengths)
        l1Ind == sortedIndices[1]
        l2Ind == sortedIndices[2]
        l3Ind == sortedIndices[3]
        a == mostCommon(sideInd[l1Ind] \o sideInd[l2Ind])
        b == mostCommon(sideInd[l2Ind] \o sideInd[l3Ind])
        c == mostCommon(sideInd[l3Ind] \o sideInd[l1Ind])
    IN  <<parseIntEntries(a), parseIntEntries(b), parseIntEntries(c)>>

-----------------------------------------------------------------------------
(* generateInvariants *)

\* coordTree.knn(asrc, k): the indices of the k points nearest to asrc,
\* closest first; points at equal distance are taken in index order
knnQuery(sources, asrc, k) ==
    LET n == Len(sources)
        d(i) == SqDist(Point(sources, i), asrc)
        before(i, j) == d(i) < d(j) \/ (d(i) = d(j) /\ i < j)
        rank(i) == Cardinality({j \in 0..(n - 1) : before(j, i)})
    IN  Eager([r \in 1..k |-> CHOOSE i \in 0..(n - 1) : rank(i) = r - 1])

\* the position triples (i, j, k), i < j < k, of the three nested loops over a
\* list of m neighbours, in the order the loops push them
CombinationTable ==
    [m \in 0..NUM_NEAREST_NEIGHBORS |->
        LET T == {t \in (1..m) \X (1..m) \X (1..m) : t[1] < t[2] /\ t[2] < t[3]}
            less(s, t) == \/ s[1] < t[1]
                          \/ (s[1] = t[1] /\ s[2] < t[2])
                          \/ (s[1] = t[1] /\ s[2] = t[2] /\ s[3] < t[3])
        IN  Eager([r \in 1..Cardinality(T) |->
                CHOOSE t \in T : Cardinality({s \in T : less(s, t)}) = r - 1])]

\* the triangles pushed for one anchor point, arranged
anchorTriangles(sources, asrc) ==
    LET knn == Min(Len(sources), NUM_NEAREST_NEIGHBORS)
        indx == knnQuery(sources, asrc, knn)
        combinations == Eager([r \in 1..Len(CombinationTable[knn]) |->
                           LET t == CombinationTable[knn][r]
                           IN  <<indx[t[1]], indx[t[2]], indx[t[3]]>>])
    IN  Eager([r \in 1..Len(combinations) |->
                  arrangeTriplet(sources, combinations[r])])

\* triangVrtx before the duplicates are removed: the triangles of all anchors
allTriangles(sources) ==
    LET knn == Min(Len(sources), NUM_NEAREST_NEIGHBORS)
        per == Len(CombinationTable[knn])
        byAnchor == Eager([a \in 1..Len(sources) |->
                              anchorTriangles(sources, sources[a])])
    IN  Eager([r \in 1..(Len(sources) * per) |->
                  byAnchor[((r - 1) \div per) + 1][((r - 1) % per) + 1]])

\* inv before the duplicates are removed
allInvariants(sources, triangVrtx) ==
    Eager([r \in 1..Len(triangVrtx) |->
        invariantFeatures(Point(sources, triangVrtx[r][1]),
                          Point(sources, triangVrtx[r][2]),
                          Point(sources, triangVrtx[r][3]))])

\* item[0] === elem[0] && item[1] === elem[1]
SameInvariant(item, elem) == StrictEq(item[1], elem[1]) /\ StrictEq(item[2], elem[2])

\* uniqInd: the positions with no equal invariant at a later position
uniqueIndices(inv) ==
    SelectSeq(Eager([pos \in 1..Len(inv) |-> pos]),
              LAMBDA pos : ~ \E later \in (pos + 1)..Len(inv) :
                                 SameInvariant(inv[later], inv[pos]))

generateInvariants(sources) ==
    LET triangVrtx == allTriangles(sources)
        inv == allInvariants(sources, triangVrtx)
        uniqInd == uniqueIndices(inv)
    IN  << Eager([i \in 1..Len(uniqInd) |-> inv[uniqInd[i]]]),
           Eager([i \in 1..Len(uniqInd) |-> triangVrtx[uniqInd[i]]]) >>

-----------------------------------------------------------------------------
(* Exact comparisons of products, without leaving the machine integers *)

\* n1 / d1 < n2 / d2 for n1, n2 >= 0 and d1, d2 > 0 (continued fractions)
RECURSIVE FracLess(_, _, _, _)
FracLess(n1, d1, n2, d2) ==
    LET q1 == n1 \div d1
        q2 == n2 \div d2
        r1 == n1 % d1
        r2 == n2 % d2
    IN  IF q1 # q2 THEN q1 < q2
        ELSE IF r2 = 0 THEN FALSE
        ELSE IF r1 = 0 THEN TRUE
        ELSE FracLess(d2, r2, d1, r1)

\* a * b < c * d for a, b, c, d >= 0
ProdLess(a, b, c, d) ==
    IF c = 0 \/ d = 0 THEN FALSE
    ELSE IF a = 0 \/ b = 0 THEN TRUE
    ELSE FracLess(a, c, d, b)

\* a * b < c * d for b, d >= 0 and a, c of any sign
SignedProdLess(a, b, c, d) ==
    LET lneg == a < 0 /\ b > 0
        rneg == c < 0 /\ d > 0
    IN  IF lneg THEN (IF rneg THEN ProdLess(-c, d, -a, b) ELSE TRUE)
        ELSE IF rneg THEN FALSE
        ELSE ProdLess(a, b, c, d)

\* x1^2 + y1^2 < x2^2 + y2^2
SumSqLess(x1, y1, x2, y2) ==
    LET ax1 == Abs(x1)
        ay1 == Abs(y1)
        ax2 == Abs(x2)
        ay2 == Abs(y2)
    IN  SignedProdLess(ax1 - ax2, ax1 + ax2, ay2 - ay1, ay2 + ay1)

\* floor(sqrt(n)), n >= 0
RECURSIVE ISqrtIn(_, _, _)
ISqrtIn(n, lo, hi) ==
    IF lo >= hi THEN lo
    ELSE LET mid == (lo + hi + 1) \div 2
         IN  IF mid * mid <= n THEN ISqrtIn(n, mid, hi) ELSE ISqrtIn(n, lo, mid - 1)

ISqrt(n) == ISqrtIn(n, 0, 46340)

RECURSIVE SumSeq(_)
SumSeq(s) == IF s = <<>> THEN 0 ELSE Head(s) + SumSeq(Tail(s))

-----------------------------------------------------------------------------
(* The similarity transform of nudged: z |-> (a + b i) z + (x + y i), kept   *)
(* as the integer numerators a, b, x, y over the common denominator den > 0 *)

Transform(a, b, x, y, den) ==
    LET g == GCD(GCD(GCD(GCD(Abs(a), Abs(b)), Abs(x)), Abs(y)), den)
    IN  [a |-> a \div g, b |-> b \div g, x |-> x \div g, y |-> y \div g,
         den |-> den \div g]

IdentityTransform == Transform(1, 0, 0, 0, 1)

\* nudged.estimate({estimator: "TSR", domain, range}): the least-squares
\* similarity transform; the translation to the mean of the range when all
\* domain points coincide, and the identity for no points
estimateTSR(domain, range) ==
    LET N == Len(domain)
        I == 1..N
        a1 == SumSeq(Eager([i \in I |-> domain[i][1]]))
        b1 == SumSeq(Eager([i \in I |-> domain[i][2]]))
        c1 == SumSeq(Eager([i \in I |-> range[i][1]]))
        d1 == SumSeq(Eager([i \in I |-> range[i][2]]))
        a2 == SumSeq(Eager([i \in I |-> domain[i][1] * domain[i][1]]))
        b2 == SumSeq(Eager([i \in I |-> domain[i][2] * domain[i][2]]))
        ac == SumSeq(Eager([i \in I |-> domain[i][1] * range[i][1]]))
        bd == SumSeq(Eager([i \in I |-> domain[i][2] * range[i][2]]))
        ad == SumSeq(Eager([i \in I |-> domain[i][1] * range[i][2]]))
        bc == SumSeq(Eager([i \in I |-> domain[i][2] * range[i][1]]))
        den == N * a2 + N * b2 - a1 * a1 - b1 * b1
    IN  IF N = 0 THEN IdentityTransform
        ELSE IF den = 0
        THEN Transform(N, 0, c1 - N * domain[1][1], d1 - N * domain[1][2], N)
        ELSE Transform(N * (ac + bd) - a1 * c1 - b1 * d1,
                       N * (ad - bc) + b1 * c1 - a1 * d1,
                       (b1 * (ad - bc) - a1 * (ac + bd)) + a2 * c1 + b2 * c1,
                       (a2 * d1 + b2 * d1) - b1 * (ac + bd) - a1 * (ad - bc),
                       den)

\* den times (T(p) - q): the residual vector of nudged.analysis.residuals
ResidualVector(T, p, q) ==
    << T.a * p[1] - T.b * p[2] + T.x - T.den * q[1],
       T.b * p[1] + T.a * p[2] + T.y - T.den * q[2] >>

\* |T(p) - q| < thresh
ResidualBelow(T, p, q, thresh) ==
    LET r == ResidualVector(T, p, q)
        c == thresh * T.den
    IN  /\ Abs(r[1]) < c
        /\ Abs(r[2]) < c
        /\ ProdLess(Abs(r[1]), Abs(r[1]), c - Abs(r[2]), c + Abs(r[2]))

\* |T(p) - q1| < |T(p) - q2|
ResidualLess(T, p, q1, q2) ==
    LET r1 == ResidualVector(T, p, q1)
        r2 == ResidualVector(T, p, q2)
    IN  SumSqLess(r1[1], r1[2], r2[1], r2[2])

-----------------------------------------------------------------------------
(* MatchTransform: fit and getError over the point lists src and tgt.  A    *)
(* candidate ("triangle") is a sequence of three <<s, t>> index pairs.      *)

\* data.flat()
FlatPairs(data) ==
    Eager([k \in 1..(3 * Len(data)) |->
              data[((k - 1) \div 3) + 1][((k - 1) % 3) + 1]])

fit(src, tgt, data) ==
    LET pairs == FlatPairs(data)
    IN  estimateTSR(Eager([k \in 1..Len(pairs) |-> Point(src, pairs[k][1])]),
                    Eager([k \in 1..Len(pairs) |-> Point(tgt, pairs[k][2])]))

\* getError(data, approxT)[i] < thresh for the triangle data[i]: the largest
\* of its three residuals is below thresh
getErrorBelow(src, tgt, triangle, approxT, thresh) ==
    \A k \in 1..3 :
        ResidualBelow(approxT, Point(src, triangle[k][1]),
                      Point(tgt, triangle[k][2]), thresh)

-----------------------------------------------------------------------------
(* findTransform: cross-matching of the invariants *)

\* floor(1000 * Math.sqrt(n / d)) of a finite value: the descriptors are
\* compared in thousandths where the code compares doubles
Thousandths(v) ==
    LET n == v[1]
        d == v[2]
        r0 == n % d
        x1 == (1000 * r0) \div d
        r1 == (1000 * r0) % d
        x2 == (1000 * r1) \div d
    IN  ISqrt((n \div d) * 1000000 + x1 * 1000 + x2)

\* targetInvariantTree.rnn(sourceInv, matchRadius, ...) visits targetInv: the
\* Euclidean distance of the two descriptors is at most matchRadius.  A
\* descriptor with a NaN or Infinity component is within radius of nothing.
withinRadius(sourceInv, targetInv) ==
    /\ \A k \in 1..2 : IsFinite(sourceInv[k]) /\ IsFinite(targetInv[k])
    /\ LET dx == Abs(Thousandths(sourceInv[1]) - Thousandths(targetInv[1]))
           dy == Abs(Thousandths(sourceInv[2]) - Thousandths(targetInv[2]))
       IN  /\ dx <= matchRadius
           /\ dy <= matchRadius
           /\ dx * dx + dy * dy <= matchRadius * matchRadius

\* a matchesList that keeps the first target within radius only
matchesListFirst(sourceInv, targetInvs) ==
    LET all == SelectSeq(Eager([j \in 1..Len(targetInvs) |-> j - 1]),
                         LAMBDA targetInd :
                             withinRadius(sourceInv, targetInvs[targetInd + 1]))
    IN  SubSeq(all, 1, Min(1, Len(all)))

\* matchesList[sourceInd]: the target indices rnn visits, in index order
matchesList(sourceInv, targetInvs) ==
    SelectSeq(Eager([j \in 1..Len(targetInvs) |-> j - 1]),
              LAMBDA targetInd : withinRadius(sourceInv, targetInvs[targetInd + 1]))

RECURSIVE FlattenSeq(_)
FlattenSeq(ss) == IF ss = <<>> THEN <<>> ELSE Head(ss) \o FlattenSeq(Tail(ss))

\* matches: for each source asterism t1 and each t2 of its matchesList, the
\* three pairs [t1[j], t2[j]]
buildMatches(sourceInvs, sourceAsts, targetInvs, targetAsts) ==
    FlattenSeq(Eager([i \in 1..Len(sourceAsts) |->
        LET t1 == sourceAsts[i]
            t2List == matchesList(sourceInvs[i], targetInvs)
        IN  Eager([m \in 1..Len(t2List) |->
                LET t2 == targetAsts[t2List[m] + 1]
                IN  Eager([j \in 1..3 |-> <<t1[j], t2[j]>>])])]))

\* a minMatches that rounds the fraction up
computeMinMatchesCeil(nInvariants) ==
    Max(1, Min(MaxMinMatches, (nInvariants * MIN_MATCHES_FRACTION + 9) \div 10))

\* Math.max(1, Math.min(10, Math.floor(nInvariants * MIN_MATCHES_FRACTION)))
computeMinMatches(nInvariants) ==
    Max(1, Min(MaxMinMatches, (nInvariants * MIN_MATCHES_FRACTION) \div 10))

\* the shortcut taken only when both lists have exactly 3 points
directFitBothOfThree(srcP, tgtP, m) ==
    /\ Len(srcP) = MinControlPoints /\ Len(tgtP) = MinControlPoints
    /\ Len(m) = 1

\* the condition of the direct-fit shortcut
directFit(srcP, tgtP, m) ==
    /\ Len(srcP) = MinControlPoints \/ Len(tgtP) = MinControlPoints
    /\ Len(m) = 1

-----------------------------------------------------------------------------
(* ransac *)

\* Math.floor(Math.random() * (i + 1)) when Math.random() returns r / RandomLevels
randomIndex(r, i) == (r * (i + 1)) \div RandomLevels

\* the Fisher-Yates loop from position i down to 1, every draw returning
\* r / RandomLevels
RECURSIVE shuffleFrom(_, _, _)
shuffleFrom(idxs, i, r) ==
    IF i <= 0 THEN idxs
    ELSE LET j == randomIndex(r, i)
             swapped == [idxs EXCEPT ![i + 1] = idxs[j + 1], ![j + 1] = idxs[i + 1]]
         IN  shuffleFrom(swapped, i - 1, r)

\* allIdxs after the shuffle of [0, ..., nData - 1]
shuffle(nData, r) == shuffleFrom(Eager([i \in 1..nData |-> i - 1]), nData - 1, r)

\* test candidates taken from the positions after the sample only
testIdxsAfter(idxs, it) == SubSeq(idxs, it + 2, Len(idxs))

\* testIdxs = [...allIdxs.slice(0, iterI), ...allIdxs.slice(iterI + 1)]
testIdxsOf(idxs, it) == SubSeq(idxs, 1, it) \o SubSeq(idxs, it + 2, Len(idxs))

\* alsoIdxs: the test candidates whose error under the model fitted to the
\* sample is below thresh
alsoInliers(src, tgt, data, idxs, it, thresh) ==
    LET maybeModel == fit(src, tgt, <<data[idxs[it + 1] + 1]>>)
    IN  SelectSeq(testIdxsOf(idxs, it),
                  LAMBDA i : getErrorBelow(src, tgt, data[i + 1], maybeModel, thresh))

\* an acceptance test that counts the sample with its supporters
acceptsCountingSample(also, minM) == Len(also) + 1 >= minM

\* alsoInliers.length >= minMatches
accepts(also, minM) == Len(also) >= minM

\* inlierIdxs.map((i) => data[i])
pick(data, idxs) == Eager([k \in 1..Len(idxs) |-> data[idxs[k] + 1]])

\* goodData = [...maybeInliers, ...alsoInliers]
goodData(data, sample, also) == <<data[sample + 1]>> \o pick(data, also)

\* a refinement round that keeps every candidate
refineInliersAll(src, tgt, data, current, thresh) ==
    Eager([i \in 1..Len(data) |-> i - 1])

\* one refinement round: the indices, ascending, of the candidates whose error
\* under the current fit is below thresh
refineInliers(src, tgt, data, current, thresh) ==
    SelectSeq(Eager([i \in 1..Len(data) |-> i - 1]),
              LAMBDA i : getErrorBelow(src, tgt, data[i + 1], current, thresh))

-----------------------------------------------------------------------------
(* findTransform: the correspondence resolver *)

\* Object.values(Object.fromEntries(...)): each distinct pair once, in the
\* order of its first occurrence
RECURSIVE uniquePairs(_, _)
uniquePairs(pairs, seen) ==
    IF pairs = <<>> THEN <<>>
    ELSE IF Head(pairs) \in seen THEN uniquePairs(Tail(pairs), seen)
    ELSE <<Head(pairs)>> \o uniquePairs(Tail(pairs), seen \union {Head(pairs)})

\* an update of inlDict that keeps the pair of larger error
keepPairWorse(src, tgt, T, dict, pair) ==
    LET sI == pair[1]
        tI == pair[2]
    IN  IF \/ sI \notin DOMAIN dict
           \/ ResidualLess(T, Point(src, sI), Point(tgt, dict[sI]), Point(tgt, tI))
        THEN [s \in (DOMAIN dict) \union {sI} |-> IF s = sI THEN tI ELSE dict[s]]
        ELSE dict

\* the update of inlDict by one pair: the pair replaces the entry of sI when
\* there is none or when its error is smaller
keepPair(src, tgt, T, dict, pair) ==
    LET sI == pair[1]
        tI == pair[2]
    IN  IF \/ sI \notin DOMAIN dict
           \/ ResidualLess(T, Point(src, sI), Point(tgt, tI), Point(tgt, dict[sI]))
        THEN [s \in (DOMAIN dict) \union {sI} |-> IF s = sI THEN tI ELSE dict[s]]
        ELSE dict

RECURSIVE buildInlDict(_, _, _, _, _)
buildInlDict(src, tgt, T, dict, pairs) ==
    IF pairs = <<>> THEN dict
    ELSE buildInlDict(src, tgt, T, keepPair(src, tgt, T, dict, Head(pairs)), Tail(pairs))

\* inlArrUnique: Object.entries(inlDict) lists the source indices ascending
resolve(src, tgt, T, data, inliers) ==
    LET inlUnique == uniquePairs(FlatPairs(pick(data, inliers)), {})
        inlDict == buildInlDict(src, tgt, T, <<>>, inlUnique)
        keys == SortedSeq(DOMAIN inlDict)
    IN  Eager([k \in 1..Len(keys) |-> <<keys[k], inlDict[keys[k]]>>])

-----------------------------------------------------------------------------
(* Inputs *)

Coords == 0..MaxCoord
GridPoints == Coords \X Coords

\* the point lists of length n over the grid
RECURSIVE ListsOfLen(_)
ListsOfLen(n) ==
    IF n = 0 THEN {<<>>}
    ELSE {Append(l, p) : l \in ListsOfLen(n - 1), p \in GridPoints}

\* the lists the geometry functions are called on: the first point is the
\* origin (the functions read differences of coordinates only)
GeomLists ==
    {<<>>} \union {<< <<0, 0>> >> \o l : l \in UNION {ListsOfLen(n) : n \in 0..(MaxPts - 1)}}

\* the triples of distinct indices arrangeTriplet is called with on n points
IndexTriples(n) ==
    {t \in (0..(n - 1)) \X (0..(n - 1)) \X (0..(n - 1)) :
        t[1] # t[2] /\ t[2] # t[3] /\ t[1] # t[3]}

\* point configurations findTransform is called on: a scattered field and a
\* regular lattice
BaseConfigs ==
    { << <<0, 0>>, <<21, 3>>, <<6, 18>>, <<27, 24>>, <<12, 9>>, <<30, 12>>, <<3, 27>>, <<18, 30>> >>,
      << <<0, 0>>, <<3, 0>>, <<6, 0>>, <<0, 3>>, <<3, 3>>, <<6, 3>>, <<0, 6>>, <<3, 6>> >> }

Prefix(l, n) == SubSeq(l, 1, Min(n, Len(l)))
Reverse(l) == Eager([i \in 1..Len(l) |-> l[Len(l) + 1 - i]])
RotateLeft(l) == Eager([i \in 1..Len(l) |-> l[(i % Len(l)) + 1]])

\* the orders the target points are presented in
Reorderings(l) == {l, Reverse(l), RotateLeft(l)}

\* a spurious detection one pixel from the first star of the field
Spurious(base) == <<base[1][1] + 1, base[1][2]>>

\* the first m stars of the field, the first one measured two pixels off
Displaced(base, m) ==
    IF m = 0 THEN <<>>
    ELSE << <<base[1][1] + 2, base[1][2]>> >> \o SubSeq(Prefix(base, m), 2, Min(m, Len(base)))

\* what the target image shows of a field: its first m stars, a window of m
\* stars shifted by one, the first m stars and a spurious detection, or the
\* first m stars with the first one displaced
TargetFields(base, m) ==
    {Prefix(base, m),
     SubSeq(base, 2, Min(m + 1, Len(base))),
     Prefix(base, m) \o <<Spurious(base)>>,
     Displaced(base, m)}

\* the similarity transforms the targets are made with
TruthTransforms == {Transform(1, 0, 2, 1, 1), Transform(1, 1, 2, 1, 1)}

\* T(p) for a transform with integer coefficients
Apply(T, p) == <<T.a * p[1] - T.b * p[2] + T.x, T.b * p[1] + T.a * p[2] + T.y>>
Image(T, l) == Eager([i \in 1..Len(l) |-> Apply(T, l[i])])

Idle == [op |-> "none"]

\* the variables of a findTransform call before the call has assigned them
Unassigned ==
    /\ err = NoError
    /\ sourceControlP = Null /\ targetControlP = Null
    /\ sourceInvariants = Null /\ sourceAsterisms = Null
    /\ targetInvariants = Null /\ targetAsterisms = Null
    /\ matches = Null /\ minMatches = Null
    /\ allIdxs = Null /\ iterI = Null /\ maybeIdxs = Null /\ alsoIdxs = Null /\ goodFit = Null
    /\ betterFit = Null /\ betterInlierIdxs = Null /\ round = Null
    /\ bestT = Null /\ inlierInd = Null /\ inlArrUnique = Null /\ ret = Null

-----------------------------------------------------------------------------
(* Calls of the exported geometry functions *)

InitGeom ==
    /\ source \in GeomLists
    /\ target = <<>>
    /\ maxControlPoints = DefaultMaxControlPoints
    /\ truth = Null
    /\ pc = "none"
    /\ Unassigned
    /\ api = Idle

CallArrangeTriplet ==
    /\ api = Idle
    /\ \E vertexIndices \in IndexTriples(Len(source)) :
          api' = [op |-> "arrangeTriplet",
                  vertexIndices |-> vertexIndices,
                  ret |-> arrangeTriplet(source, vertexIndices)]
    /\ UNCHANGED <<inputVars, pc, err, controlVars, invariantVars, matchVars,
                   loopVars, refineVars, resultVars>>

CallGenerateInvariants ==
    /\ api = Idle
    /\ api' = [op |-> "generateInvariants",
               inv |-> allInvariants(source, allTriangles(source)),
               triangVrtx |-> allTriangles(source),
               ret |-> generateInvariants(source)]
    /\ UNCHANGED <<inputVars, pc, err, controlVars, invariantVars, matchVars,
                   loopVars, refineVars, resultVars>>

NextGeom == CallArrangeTriplet \/ CallGenerateInvariants

SpecGeom == InitGeom /\ [][NextGeom]_vars

-----------------------------------------------------------------------------
(* A call of findTransform *)

Init ==
    /\ \E base \in BaseConfigs, n \in 0..MaxSrc, m \in 0..MaxSrc,
          T \in TruthTransforms :
          \E field \in TargetFields(base, m) :
              /\ source = Prefix(base, n)
              /\ target \in Reorderings(Image(T, field))
              /\ truth = [exact |-> (field = source), T |-> T]
    /\ maxControlPoints \in {MinControlPoints - 1, MinControlPoints,
                             DefaultMaxControlPoints}
    /\ pc = "call"
    /\ Unassigned
    /\ api = Idle

\* the input checks: an empty list has no first row, so it is taken for an
\* image and handed to _findSources, which is not defined; the ReferenceError
\* is rethrown as the TypeError of the argument
CheckInputs ==
    /\ pc = "call"
    /\ LET srcP == SubSeq(source, 1, Min(maxControlPoints, Len(source)))
           tgtP == SubSeq(target, 1, Min(maxControlPoints, Len(target)))
       IN  IF Len(source) = 0
           THEN /\ pc' = "thrown" /\ err' = "type_source"
                /\ UNCHANGED controlVars
           ELSE IF Len(target) = 0
           THEN /\ pc' = "thrown" /\ err' = "type_target"
                /\ sourceControlP' = Some(srcP)
                /\ UNCHANGED targetControlP
           ELSE /\ sourceControlP' = Some(srcP)
                /\ targetControlP' = Some(tgtP)
                /\ IF Len(srcP) < MinControlPoints
                   THEN pc' = "thrown" /\ err' = "few_source"
                   ELSE IF Len(tgtP) < MinControlPoints
                   THEN pc' = "thrown" /\ err' = "few_target"
                   ELSE pc' = "generate" /\ UNCHANGED err
    /\ UNCHANGED <<inputVars, invariantVars, matchVars, loopVars, refineVars,
                   resultVars, api>>

GenerateInvariants ==
    /\ pc = "generate"
    /\ LET s == generateInvariants(Val(sourceControlP))
           t == generateInvariants(Val(targetControlP))
       IN  /\ sourceInvariants' = Some(s[1])
           /\ sourceAsterisms' = Some(s[2])
           /\ targetInvariants' = Some(t[1])
           /\ targetAsterisms' = Some(t[2])
    /\ pc' = "match"
    /\ UNCHANGED <<inputVars, err, controlVars, matchVars, loopVars, refineVars,
                   resultVars, api>>

CrossMatch ==
    /\ pc = "match"
    /\ LET m == buildMatches(Val(sourceInvariants), Val(sourceAsterisms),
                             Val(targetInvariants), Val(targetAsterisms))
       IN  /\ matches' = Some(m)
           /\ minMatches' = Some(computeMinMatches(Len(m)))
    /\ pc' = "estimate"
    /\ UNCHANGED <<inputVars, err, controlVars, invariantVars, loopVars,
                   refineVars, resultVars, api>>

DirectFit ==
    /\ pc = "estimate"
    /\ directFit(Val(sourceControlP), Val(targetControlP), Val(matches))
    /\ bestT' = Some(fit(Val(sourceControlP), Val(targetControlP), Val(matches)))
    /\ inlierInd' = Some(Eager([i \in 1..Len(Val(matches)) |-> i - 1]))
    /\ pc' = "resolve"
    /\ UNCHANGED <<inputVars, err, controlVars, invariantVars, matchVars,
                   loopVars, refineVars, inlArrUnique, ret, api>>

\* ransac is entered: goodFit = null and the indices are shuffled
RansacEnter ==
    /\ pc = "estimate"
    /\ ~ directFit(Val(sourceControlP), Val(targetControlP), Val(matches))
    /\ goodFit' = Null
    /\ \E r \in 0..(RandomLevels - 1) : allIdxs' = Some(shuffle(Len(Val(matches)), r))
    /\ iterI' = Some(0)
    /\ pc' = "sample"
    /\ UNCHANGED <<inputVars, err, controlVars, invariantVars, matchVars,
                   maybeIdxs, alsoIdxs, refineVars, resultVars, api>>

\* one iteration of the sampling loop
RansacIterate ==
    /\ pc = "sample"
    /\ Val(iterI) < Len(Val(matches))
    /\ LET sample == Val(allIdxs)[Val(iterI) + 1]
           also == alsoInliers(Val(sourceControlP), Val(targetControlP), Val(matches),
                               Val(allIdxs), Val(iterI), PIXEL_TOL)
       IN  /\ maybeIdxs' = Some(sample)
           /\ alsoIdxs' = Some(also)
           /\ IF accepts(also, Val(minMatches))
              THEN /\ goodFit' = Some(fit(Val(sourceControlP), Val(targetControlP),
                                          goodData(Val(matches), sample, also)))
                   /\ betterFit' = goodFit'
                   /\ betterInlierIdxs' = Some(<<>>)
                   /\ round' = Some(0)
                   /\ pc' = "refine"
                   /\ UNCHANGED iterI
              ELSE /\ iterI' = Some(Val(iterI) + 1)
                   /\ UNCHANGED <<goodFit, refineVars, pc>>
    /\ UNCHANGED <<inputVars, err, controlVars, invariantVars, matchVars,
                   allIdxs, resultVars, api>>

\* an exhausted loop that starts over with the first candidate
RansacRetry ==
    /\ pc = "sample"
    /\ Val(iterI) = Len(Val(matches))
    /\ iterI' = Some(0)
    /\ UNCHANGED <<inputVars, pc, err, controlVars, invariantVars, matchVars,
                   allIdxs, maybeIdxs, alsoIdxs, goodFit, refineVars, resultVars, api>>

\* an exhausted loop that falls back on a fit of all the candidates
RansacBestEffort ==
    /\ pc = "sample"
    /\ Val(iterI) = Len(Val(matches))
    /\ goodFit' = Some(fit(Val(sourceControlP), Val(targetControlP), Val(matches)))
    /\ betterFit' = goodFit'
    /\ betterInlierIdxs' = Some(<<>>)
    /\ round' = Some(0)
    /\ pc' = "refine"
    /\ UNCHANGED <<inputVars, err, controlVars, invariantVars, matchVars,
                   allIdxs, iterI, maybeIdxs, alsoIdxs, resultVars, api>>

\* the loop ended with goodFit === null
RansacExhausted ==
    /\ pc = "sample"
    /\ Val(iterI) = Len(Val(matches))
    /\ pc' = "thrown"
    /\ err' = "exhausted"
    /\ UNCHANGED <<inputVars, controlVars, invariantVars, matchVars, loopVars,
                   refineVars, resultVars, api>>

RefineRound ==
    /\ pc = "refine"
    /\ Val(round) < RefineRounds
    /\ LET idxs == refineInliers(Val(sourceControlP), Val(targetControlP), Val(matches),
                                 Val(betterFit), PIXEL_TOL)
       IN  /\ betterInlierIdxs' = Some(idxs)
           /\ betterFit' = Some(fit(Val(sourceControlP), Val(targetControlP),
                                    pick(Val(matches), idxs)))
    /\ round' = Some(Val(round) + 1)
    /\ UNCHANGED <<inputVars, pc, err, controlVars, invariantVars, matchVars,
                   loopVars, resultVars, api>>

\* a return that does not wait for the last refinement round
RansacReturnEarly ==
    /\ pc = "refine"
    /\ Val(round) >= 1
    /\ bestT' = betterFit
    /\ inlierInd' = betterInlierIdxs
    /\ pc' = "resolve"
    /\ UNCHANGED <<inputVars, err, controlVars, invariantVars, matchVars,
                   loopVars, refineVars, inlArrUnique, ret, api>>

RansacReturn ==
    /\ pc = "refine"
    /\ Val(round) = RefineRounds
    /\ bestT' = betterFit
    /\ inlierInd' = betterInlierIdxs
    /\ pc' = "resolve"
    /\ UNCHANGED <<inputVars, err, controlVars, invariantVars, matchVars,
                   loopVars, refineVars, inlArrUnique, ret, api>>

Resolve ==
    /\ pc = "resolve"
    /\ LET arr == resolve(Val(sourceControlP), Val(targetControlP), Val(bestT),
                          Val(matches), Val(inlierInd))
       IN  /\ inlArrUnique' = Some(arr)
           /\ ret' = Some([transform |-> Val(bestT),
                           sourceList |-> Eager([k \in 1..Len(arr) |->
                                              Point(Val(sourceControlP), arr[k][1])]),
                           targetList |-> Eager([k \in 1..Len(arr) |->
                                              Point(Val(targetControlP), arr[k][2])])])
    /\ pc' = "returned"
    /\ UNCHANGED <<inputVars, err, controlVars, invariantVars, matchVars,
                   loopVars, refineVars, bestT, inlierInd, api>>

Next ==
    \/ CheckInputs
    \/ GenerateInvariants
    \/ CrossMatch
    \/ DirectFit
    \/ RansacEnter
    \/ RansacIterate
    \/ RansacExhausted
    \/ RefineRound
    \/ RansacReturn
    \/ Resolve

Spec == Init /\ [][Next]_vars

\* the call is over
Finished == pc \in {"returned", "thrown"}

\* a call that is not held up runs until it returns or throws: the weak
\* fairness WF_vars(Next), which is []<>(~ENABLED <<Next>>_vars) \/
\* []<><<Next>>_vars, with ENABLED <<Next>>_vars written out (some step is
\* possible exactly as long as the call is not over)
Fairness == []<>Finished \/ []<><<Next>>_vars

SpecFair == Spec /\ Fairness

-----------------------------------------------------------------------------
(* Properties of arrangeTriplet and generateInvariants, under SpecGeom *)

\* the six orderings of an index triple
Orderings(t) ==
    {<<t[1], t[2], t[3]>>, <<t[1], t[3], t[2]>>, <<t[2], t[1], t[3]>>,
     <<t[2], t[3], t[1]>>, <<t[3], t[1], t[2]>>, <<t[3], t[2], t[1]>>}

\* the three sides of the triangle have pairwise different lengths
Scalene(sources, t) ==
    LET d12 == SqDist(Point(sources, t[1]), Point(sources, t[2]))
        d23 == SqDist(Point(sources, t[2]), Point(sources, t[3]))
        d31 == SqDist(Point(sources, t[3]), Point(sources, t[1]))
    IN  d12 # d23 /\ d23 # d31 /\ d12 # d31

Arranged == api.op = "arrangeTriplet"
Generated == api.op = "generateInvariants"

\* C2 as stated: arrangeTriplet returns the same triple for all six orderings
\* of any three distinct indices into any point set
C2_AnyTriangle ==
    Arranged =>
        \A q \in Orderings(api.vertexIndices) : arrangeTriplet(source, q) = api.ret

\* C2, amended: arrangeTriplet returns the same triple for all six orderings of
\* three distinct indices whose triangle has three pairwise different sides
C2_ScaleneInvariance ==
    (Arranged /\ Scalene(source, api.vertexIndices)) =>
        \A q \in Orderings(api.vertexIndices) : arrangeTriplet(source, q) = api.ret

\* a scalene triangle that arrangeTriplet has reordered
C2_Witness ==
    /\ Arranged
    /\ Scalene(source, api.vertexIndices)
    /\ api.ret # api.vertexIndices

\* C8: for a triangle with sides L1 < L2 < L3 the result (a, b, c) is a
\* permutation of the input indices with a on L1 and L2, b on L2 and L3 and c
\* on L3 and L1: the side a-c is the shortest, a-b the middle, b-c the longest
C8_VertexRoles ==
    (Arranged /\ Scalene(source, api.vertexIndices)) =>
        LET a == api.ret[1]
            b == api.ret[2]
            c == api.ret[3]
            v == api.vertexIndices
        IN  /\ {a, b, c} = {v[1], v[2], v[3]}
            /\ SqDist(Point(source, a), Point(source, c))
                 < SqDist(Point(source, a), Point(source, b))
            /\ SqDist(Point(source, a), Point(source, b))
                 < SqDist(Point(source, b), Point(source, c))

\* a scalene triangle whose first input vertex is returned in the last place
C8_Witness ==
    /\ Arranged
    /\ Scalene(source, api.vertexIndices)
    /\ api.ret[3] = api.vertexIndices[1]

\* C7 as stated: the result holds one entry per distinct descriptor among the
\* candidates enumerated (the last of each group of equal descriptors, in
\* enumeration order), as two parallel sequences no longer than the candidates
C7_OnePerDescriptor ==
    Generated =>
        LET inv == api.inv
            kept == SelectSeq([pos \in 1..Len(inv) |-> pos],
                              LAMBDA pos : \A later \in (pos + 1)..Len(inv) :
                                               inv[later] # inv[pos])
        IN  /\ Len(api.ret[1]) = Len(api.ret[2])
            /\ Len(api.ret[1]) <= Len(inv)
            /\ api.ret[1] = [i \in 1..Len(kept) |-> inv[kept[i]]]
            /\ api.ret[2] = [i \in 1..Len(kept) |-> api.triangVrtx[kept[i]]]
            /\ \A i, j \in 1..Len(api.ret[1]) : i # j => api.ret[1][i] # api.ret[1][j]

\* C9 as stated: both components of every descriptor returned are numbers >= 1
\* (neither NaN nor the quotient by a zero side)
C9_DescriptorsDefined ==
    Generated =>
        \A i \in 1..Len(api.ret[1]) : \A k \in 1..2 :
            IsFinite(api.ret[1][i][k]) /\ AtLeastOne(api.ret[1][i][k])

-----------------------------------------------------------------------------
(* Properties of findTransform and ransac, under Spec *)

Done == pc \in {"returned", "thrown"}

\* ransac was entered by this call
InRansac == allIdxs # Null

\* the target is the whole source under truth.T, reordered, and N >= 6 points
\* are used
RoundTripInput ==
    /\ truth.exact
    /\ Len(source) >= 6
    /\ maxControlPoints >= Len(source)

\* the candidate pairs every source vertex with its image under truth.T
TrueCandidate(c) ==
    \A k \in 1..3 :
        Point(Val(targetControlP), c[k][2])
            = Apply(truth.T, Point(Val(sourceControlP), c[k][1]))

\* every returned pair has residual 0 under the returned transform
ZeroResiduals ==
    \A k \in 1..Len(Val(ret).sourceList) :
        ResidualVector(Val(ret).transform, Val(ret).sourceList[k],
                       Val(ret).targetList[k]) = <<0, 0>>

TrueConsensus ==
    /\ InRansac
    /\ TrueCandidate(Val(matches)[Val(maybeIdxs) + 1])
    /\ \A i \in 1..Len(Val(matches)) :
          getErrorBelow(Val(sourceControlP), Val(targetControlP), Val(matches)[i],
                        truth.T, PIXEL_TOL)
              => TrueCandidate(Val(matches)[i])

InlierPairs ==
    {Val(matches)[Val(inlierInd)[i] + 1][k] :
        <<i, k>> \in (1..Len(Val(inlierInd))) \X (1..3)}

\* the targets paired with source index s in some inlier candidate
InlierTargets(s) == {p[2] : p \in {q \in InlierPairs : q[1] = s}}

\* the source indices of the inlier candidates
InlierSources == {p[1] : p \in InlierPairs}

\* r(s, t) < r(s, u) under the best transform
LowerResidual(s, t, u) ==
    ResidualLess(Val(bestT), Point(Val(sourceControlP), s),
                 Point(Val(targetControlP), t), Point(Val(targetControlP), u))

\* C3: in the returned correspondences every source index appears at most
\* once, its target is one of lowest residual among the targets the inlier
\* candidates pair it with, and the two coordinate lists are paired by position
C3_Resolved ==
    pc = "returned" =>
        LET arr == Val(inlArrUnique)
        IN  /\ \A i, j \in 1..Len(arr) : i # j => arr[i][1] # arr[j][1]
            /\ {arr[i][1] : i \in 1..Len(arr)} = InlierSources
            /\ \A i \in 1..Len(arr) :
                  /\ arr[i][2] \in InlierTargets(arr[i][1])
                  /\ \A u \in InlierTargets(arr[i][1]) :
                        ~ LowerResidual(arr[i][1], u, arr[i][2])
            /\ Len(Val(ret).sourceList) = Len(arr)
            /\ Len(Val(ret).targetList) = Len(arr)
            /\ \A i \in 1..Len(arr) :
                  /\ Val(ret).sourceList[i] = Point(Val(sourceControlP), arr[i][1])
                  /\ Val(ret).targetList[i] = Point(Val(targetControlP), arr[i][2])

\* a source index that the inlier candidates pair with two targets of
\* different residual
C3_Witness ==
    /\ pc = "returned"
    /\ \E s \in InlierSources : \E t, u \in InlierTargets(s) : LowerResidual(s, t, u)

C5_InsufficientPoints ==
    (/\ pc # "call"
     /\ \/ Min(maxControlPoints, Len(source)) < MinControlPoints
        \/ Min(maxControlPoints, Len(target)) < MinControlPoints) =>
        /\ pc = "thrown"
        /\ err \in {"few_source", "few_target"}
        /\ sourceInvariants = Null /\ targetInvariants = Null /\ matches = Null

\* the call got past the choice between the direct fit and ransac
PastEstimate ==
    pc \in {"sample", "refine", "resolve", "returned"} \/ err = "exhausted"

\* the direct fit was taken: no sampling, no refinement, no exhaustion
DirectlyFitted ==
    /\ ~ InRansac
    /\ round = Null
    /\ err # "exhausted"
    /\ bestT = Some(fit(Val(sourceControlP), Val(targetControlP), Val(matches)))
    /\ inlierInd = Some(<<0>>)

\* C6 as stated: with exactly one candidate the transform is fitted directly
C6_SingleCandidate ==
    (PastEstimate /\ Len(Val(matches)) = 1) => DirectlyFitted

\* C6, amended: with exactly one candidate and exactly 3 control points in the
\* source or in the target, the transform is fitted directly on that candidate
\* and the inlier list is that candidate; ransac is not run
C6_SingleCandidateOfThree ==
    (/\ PastEstimate
     /\ Len(Val(matches)) = 1
     /\ \/ Len(Val(sourceControlP)) = MinControlPoints
        \/ Len(Val(targetControlP)) = MinControlPoints)
        => DirectlyFitted

\* a direct fit when only one of the two lists has exactly 3 points
C6_Witness ==
    /\ pc = "returned"
    /\ Len(Val(matches)) = 1
    /\ ~ InRansac
    /\ Len(Val(sourceControlP)) # Len(Val(targetControlP))

\* an iteration of the sampling loop has run
Sampled == InRansac /\ maybeIdxs # Null

\* the position in allIdxs of the last sample
LastPosition == IF goodFit # Null THEN Val(iterI) ELSE Val(iterI) - 1

\* the candidates other than the last sample whose error under the hypothesis
\* fitted to the sample alone is strictly below PIXEL_TOL
Supporters ==
    LET hypothesis == fit(Val(sourceControlP), Val(targetControlP),
                          <<Val(matches)[Val(maybeIdxs) + 1]>>)
    IN  {i \in 0..(Len(Val(matches)) - 1) :
            /\ i # Val(maybeIdxs)
            /\ getErrorBelow(Val(sourceControlP), Val(targetControlP),
                             Val(matches)[i + 1], hypothesis, PIXEL_TOL)}

\* what an iteration does apart from the decision to accept
IterationShape ==
    /\ Val(maybeIdxs) = Val(allIdxs)[LastPosition + 1]
    /\ {Val(alsoIdxs)[k] : k \in 1..Len(Val(alsoIdxs))} = Supporters
    /\ Len(Val(alsoIdxs)) = Cardinality(Supporters)
    /\ goodFit # Null =>
          /\ goodFit = Some(fit(Val(sourceControlP), Val(targetControlP),
                                <<Val(matches)[Val(maybeIdxs) + 1]>>
                                    \o pick(Val(matches), Val(alsoIdxs))))
          /\ pc # "sample"

\* C10 as stated: the hypothesis is accepted exactly when the sample and its
\* supporters together number at least minMatches
C10_CountingSample ==
    Sampled =>
        /\ IterationShape
        /\ goodFit # Null <=> 1 + Len(Val(alsoIdxs)) >= Val(minMatches)

\* C10, amended: the hypothesis is accepted exactly when the supporters alone
\* (the candidates other than the sample with error strictly below
\* pixelTolerance) number at least minMatches; the transform is then refit
\* from the sample and the supporters and no further candidate is sampled
C10_CountingSupporters ==
    Sampled =>
        /\ IterationShape
        /\ goodFit # Null <=> Len(Val(alsoIdxs)) >= Val(minMatches)

\* a hypothesis accepted after an earlier sample was rejected
C10_Witness ==
    /\ Sampled
    /\ goodFit # Null
    /\ Val(iterI) > 0
    /\ Len(Val(alsoIdxs)) >= Val(minMatches)

\* the candidate indices whose error under transform T is strictly below
\* PIXEL_TOL
Below(T) ==
    {i \in 0..(Len(Val(matches)) - 1) :
        getErrorBelow(Val(sourceControlP), Val(targetControlP),
                      Val(matches)[i + 1], T, PIXEL_TOL)}

\* the sequence lists exactly the members of S, in ascending order
AscendingListOf(q, S) ==
    /\ {q[k] : k \in 1..Len(q)} = S
    /\ \A k \in 1..(Len(q) - 1) : q[k] < q[k + 1]

\* the fit of the candidates listed in idxs
FitOf(idxs) == fit(Val(sourceControlP), Val(targetControlP), pick(Val(matches), idxs))

\* C11: after an acceptance ransac performs exactly 3 refinement rounds; each
\* sets the inlier list to all candidate indices, ascending, whose error under
\* the current transform is strictly below the tolerance and replaces the
\* transform by the fit of that list; the returned list is the third round's
\* and the returned transform is the fit of that list
C11_ThreeRefinements ==
    /\ [](/\ pc = "refine" => Val(round) \in 0..RefineRounds
          /\ (pc = "refine" /\ Val(round) = 0) => betterFit = goodFit
          /\ (pc = "refine" /\ Val(round) > 0) =>
                betterFit = Some(FitOf(Val(betterInlierIdxs)))
          /\ (InRansac /\ pc \in {"resolve", "returned"}) =>
                /\ round = Some(3)
                /\ inlierInd = betterInlierIdxs
                /\ bestT = Some(FitOf(Val(inlierInd))))
    /\ [][(pc = "refine" /\ Val(round) < 3) =>
              /\ pc' = "refine"
              /\ Val(round') = Val(round) + 1
              /\ AscendingListOf(Val(betterInlierIdxs'), Below(Val(betterFit)))
              /\ betterFit' = Some(FitOf(Val(betterInlierIdxs')))]_vars
    /\ [][(pc = "refine" /\ Val(round) = 3) =>
              /\ pc' = "resolve"
              /\ bestT' = betterFit
              /\ inlierInd' = betterInlierIdxs]_vars

\* a return from ransac whose refinement moved the transform away from the
\* accepted fit and changed the inlier list
C11_Witness ==
    /\ InRansac
    /\ pc = "resolve"
    /\ bestT # goodFit
    /\ Len(Val(inlierInd)) > 0
    /\ Len(Val(inlierInd)) # 1 + Len(Val(alsoIdxs))

\* the candidate list has just been built
Matched == pc = "estimate"

\* the positions of the target descriptors within matchRadius of source
\* descriptor i
TargetsWithin(i) ==
    {j \in 1..Len(Val(targetInvariants)) :
        withinRadius(Val(sourceInvariants)[i], Val(targetInvariants)[j])}

\* the number of target descriptors within radius of each source descriptor
WithinCounts ==
    Eager([i \in 1..Len(Val(sourceInvariants)) |-> Cardinality(TargetsWithin(i))])

\* the candidate of source triangle i and target triangle j: the vertices
\* paired position by position
CandidateOf(i, j) ==
    [k \in 1..3 |-> <<Val(sourceAsterisms)[i][k], Val(targetAsterisms)[j][k]>>]

\* C12: the candidate list holds, grouped in source-descriptor order, exactly
\* one candidate for every target descriptor within radius of each source
\* descriptor, none merged or dropped, and the candidate pairs the k-th vertex
\* of the source triangle with the k-th vertex of the target triangle
C12_CandidateList ==
    Matched =>
        LET nS == Len(Val(sourceInvariants))
            counts == WithinCounts
            start == Eager([i \in 1..(nS + 1) |-> SumSeq(SubSeq(counts, 1, i - 1))])
        IN  /\ Len(Val(matches)) = start[nS + 1]
            /\ \A i \in 1..nS :
                  LET group == (start[i] + 1)..start[i + 1]
                  IN  /\ {Val(matches)[p] : p \in group}
                            = {CandidateOf(i, j) : j \in TargetsWithin(i)}
                      /\ \A p, q \in group : p # q => Val(matches)[p] # Val(matches)[q]

\* a candidate list where one source descriptor has several target
\* descriptors within radius and an earlier one has none
C12_Witness ==
    /\ Matched
    /\ \E i \in 1..Len(Val(sourceInvariants)) :
          /\ Cardinality(TargetsWithin(i)) >= 2
          /\ \E h \in 1..(i - 1) : TargetsWithin(h) = {}
          /\ \E h \in 1..(i - 1) : TargetsWithin(h) # {}

\* the ransac call is over: it has thrown or it has returned to findTransform
RansacEnded == err = "exhausted" \/ (InRansac /\ pc \in {"resolve", "returned"})

\* C13: ransac on n candidates terminates: the shuffled order is a
\* permutation of 0..n-1 that is never changed, the samples are taken at the
\* positions 0, 1, 2, ... of it, one hypothesis for each and never more than
\* n, the loop once left is not entered again, and the call ends with the
\* exhaustion error or after exactly 3 refinement rounds
C13_Terminates ==
    /\ [](InRansac =>
            LET n == Len(Val(matches))
            IN  /\ Len(Val(allIdxs)) = n
                /\ {Val(allIdxs)[k] : k \in 1..n} = 0..(n - 1)
                /\ Val(iterI) \in 0..n
                /\ goodFit # Null => Val(iterI) < n
                /\ (pc \in {"resolve", "returned"}) => round = Some(RefineRounds))
    /\ [][InRansac => allIdxs' = allIdxs /\ Val(iterI') >= Val(iterI)]_vars
    /\ [][(pc = "sample" /\ Val(iterI) < Len(Val(matches))) =>
              /\ maybeIdxs' = Some(Val(allIdxs)[Val(iterI) + 1])
              /\ \/ pc' = "sample" /\ Val(iterI') = Val(iterI) + 1
                 \/ pc' = "refine" /\ iterI' = iterI]_vars
    /\ [][(InRansac /\ pc # "sample") => pc' # "sample"]_vars
    /\ (pc = "sample") ~> RansacEnded

\* a ransac call that ended after rejecting some samples and accepting a
\* later one
C13_Witness ==
    /\ InRansac
    /\ pc = "returned"
    /\ Val(iterI) >= 1
    /\ Val(iterI) < Len(Val(matches)) - 1

\* floor(0.8 * n): the integer k with k <= 0.8 n < k + 1
FloorOfFraction(n) == CHOOSE k \in 0..n : 10 * k <= 8 * n /\ 8 * n < 10 * (k + 1)

\* C14: for every candidate count n the minMatches handed to ransac is
\* floor(0.8 n) clamped to [1, 10]; so 1 <= minMatches <= 10, and
\* minMatches <= n when n >= 1
C14_MinMatchesClamp ==
    minMatches # Null =>
        LET n == Len(Val(matches))
            f == FloorOfFraction(n)
            m == Val(minMatches)
        IN  /\ m = (IF f < 1 THEN 1 ELSE IF f > 10 THEN 10 ELSE f)
            /\ 1 <= m /\ m <= 10
            /\ n >= 1 => m <= n

\* ransac entered with more candidates than the upper clamp lets through
C14_Witness ==
    /\ pc = "sample"
    /\ Len(Val(matches)) >= 13
    /\ minMatches = Some(10)

\* the candidates other than i whose error under the hypothesis fitted to
\* candidate i alone is strictly below PIXEL_TOL
SupportersOf(i) ==
    LET hypothesis == fit(Val(sourceControlP), Val(targetControlP), <<Val(matches)[i + 1]>>)
    IN  {j \in 0..(Len(Val(matches)) - 1) :
            /\ j # i
            /\ getErrorBelow(Val(sourceControlP), Val(targetControlP),
                             Val(matches)[j + 1], hypothesis, PIXEL_TOL)}

\* the candidates whose hypothesis would be accepted, whatever the order
Accepting ==
    {i \in 0..(Len(Val(matches)) - 1) : Cardinality(SupportersOf(i)) >= Val(minMatches)}

\* the sampling loop has just ended, one way or the other
Decided == err = "exhausted" \/ (InRansac /\ pc = "refine" /\ Val(round) = 0)

\* C15: whether ransac succeeds or throws the exhaustion error is decided by
\* the candidate list, the tolerance and minMatches alone: it throws exactly
\* when no candidate has minMatches supporters, whatever the shuffled order,
\* and when it succeeds the accepted sample is the first accepting candidate
\* of the order
C15_OrderIndependent ==
    Decided =>
        /\ err = "exhausted" <=> Accepting = {}
        /\ err # "exhausted" =>
              /\ Val(maybeIdxs) \in Accepting
              /\ \A k \in 1..Val(iterI) : Val(allIdxs)[k] \notin Accepting

\* a success where the order mattered for which hypothesis was found: the
\* first candidates of the order were not accepting
C15_Witness ==
    /\ Decided
    /\ err # "exhausted"
    /\ Val(iterI) >= 1
    /\ Val(allIdxs)[1] # 0

====
